---- MODULE Spec2Model ----
(***************************************************************************)
(* Model of src/iac.py: the CIDR allocator (find_available_cidr), the      *)
(* load-balancer retry orchestrator (create_network_load_balancer) and the *)
(* deployment sequencer (deploy) of AWSInfrastructure.                     *)
(*                                                                         *)
(* Three specifications share the provider state:                          *)
(*   SpecAlloc   the allocator as a pure function of an inventory snapshot;*)
(*   Spec        one run of deploy against a nondeterministic provider;    *)
(*   SpecEnsure  the idempotent creators, each called twice in sequence.   *)
(*                                                                         *)
(* Model of src/app.py: the registry running_stresses of the stress        *)
(* service and the handlers and the background task that change it:        *)
(*   SpecApp     the handlers and cleanup tasks interleaved on the event   *)
(*               loop, the stress-ng processes ending on their own.        *)
(***************************************************************************)
EXTENDS Integers, Sequences, FiniteSets, TLC

VARIABLES
    \* the provider
    vpc,            \* the VPC as describe_vpcs reports it
    subnets,        \* the VPC's subnets, in describe_subnets order
    zones,          \* the available zones, in provider order
    lb,             \* the load balancer named NLB_NAME: None or [arn, subnets]
    tg,             \* the ARN of the target group named TARGET_GROUP_NAME, or "None"
    listeners,      \* the ports of the listeners of the load balancer, one entry each
    asg,            \* whether the autoscaling group named ASG_NAME exists
    launch_template, \* whether describe_launch_template_versions finds LAUNCH_TEMPLATE_ID
    \* the process
    mode,           \* "alloc" (SpecAlloc), "deploy" (Spec), "ensure" (SpecEnsure)
                    \* or "app" (SpecApp)
    pc,             \* the step deploy is at
    vpc_id,         \* deploy's vpc_id
    caller_subnets, \* deploy's subnets: the caller's subnet list
    cur_subnets,    \* the subnets argument of the create_network_load_balancer call in progress
    final_subnets,  \* self.final_subnets
    nlb_arn,        \* what create_network_load_balancer returned ("pending" before)
    tg_arn,         \* what create_target_group returned
    elapsed,        \* wait_for_nlb_active: time.time() - start_time, in seconds
    policy_puts,    \* create_target_tracking_policy: put_scaling_policy calls so far
    result,         \* what deploy returned ("running" before)
    \* the record of the run
    attempts,       \* the subnet lists of the create_load_balancer calls issued
    offenders,      \* the subnet ids named by the insufficient-space errors
    remedy,         \* the last remediation cycle: what it read and what it did
    asg_subnets,    \* the subnet list passed to create_auto_scaling_group
    calls,          \* the provider calls issued, a repeated call listed once
    failed,         \* the steps of deploy that failed
    succeeded,      \* the steps of deploy that succeeded
    signal,         \* the code of the provider's last answer to a creation call
    view,           \* what the last allocator call read from the provider
    cidr_az,        \* what the last find_available_cidr call returned
    \* the stress service (src/app.py)
    running_stresses, \* the registry: process id -> the Popen object registered
    processes,      \* the Popen objects created, in order: pid, state, returncode
    background_tasks, \* the cleanup_process tasks scheduled, in order
    removed,        \* the del statements the last handler or task executed
    response        \* the status of the last response sent

provider == <<vpc, subnets, zones, lb, tg, listeners, asg, launch_template>>

process == <<pc, vpc_id, caller_subnets, cur_subnets, final_subnets, nlb_arn, tg_arn,
             elapsed, policy_puts, result>>

history == <<attempts, offenders, remedy, asg_subnets, calls, failed, succeeded,
             signal>>

service == <<running_stresses, processes, background_tasks, removed, response>>

infrastructure == <<provider, process, history, view, cidr_az>>

vars == <<provider, mode, process, history, view, cidr_az, service>>

----------------------------------------------------------------------------
(* Bounds of the model.                                                    *)

\* most subnets of an inventory drawn by InitAlloc
MaxSubnets == 2

----------------------------------------------------------------------------
(* Values.                                                                 *)

\* Python's None, for results that are records
None == [tag |-> "None"]

\* an IPv4 network: base address (an integer) and prefix length
Net(a, p) == [addr |-> a, prefix |-> p]

\* 10.0.0.0
Base == 10 * (2 ^ 24)

----------------------------------------------------------------------------
(* ipaddress.IPv4Network, as find_available_cidr uses it.                  *)

num_addresses(n) == 2 ^ (32 - n.prefix)

broadcast_address(n) == n.addr + num_addresses(n) - 1

\* address a in network n
Contains(n, a) == n.addr <= a /\ a <= broadcast_address(n)

\* (mutant) only the candidate's first address is looked up in the other network
overlaps_first_address_only(a, b) == Contains(b, a.addr)

\* line 138, IPv4Network.overlaps: either network holds an end of the other
overlaps(a, b) ==
    \/ Contains(b, a.addr)
    \/ Contains(b, broadcast_address(a))
    \/ Contains(a, b.addr)
    \/ Contains(a, broadcast_address(b))

\* a lies entirely within b
subnet_of(a, b) == b.addr <= a.addr /\ broadcast_address(a) <= broadcast_address(b)

\* vpc_network.subnets(new_prefix=size) raises ValueError for a shorter prefix
subnets_raises(n, size) == size < n.prefix \/ size > 32

\* the number of ranges vpc_network.subnets(new_prefix=size) yields
subnets_count(n, size) == 2 ^ (size - n.prefix)

\* the i-th range (from 0, in address order) of vpc_network.subnets(new_prefix=size)
subnets_at(n, size, i) == Net(n.addr + i * (2 ^ (32 - size)), size)

----------------------------------------------------------------------------
(* The inventory reader: get_vpc_info, get_existing_subnets,               *)
(* get_available_zones. ok is whether the provider call answered.          *)

get_vpc_info(ok) == IF ok /\ vpc # None THEN vpc ELSE None

get_existing_subnets(ok) == IF ok THEN subnets ELSE <<>>

get_available_zones(ok) == IF ok THEN zones ELSE <<>>

----------------------------------------------------------------------------
(* find_available_cidr.                                                    *)

RECURSIVE AppendAssociated(_, _, _)
\* lines 107-111: append the associated blocks not yet listed, from index i on
AppendAssociated(acc, assocs, i) ==
    IF i > Len(assocs) THEN acc
    ELSE LET a == assocs[i]
             listed == \E j \in 1..Len(acc) : acc[j] = a.CidrBlock
         IN  IF a.State = "associated" /\ ~listed
             THEN AppendAssociated(Append(acc, a.CidrBlock), assocs, i + 1)
             ELSE AppendAssociated(acc, assocs, i + 1)

\* the VPC's CIDR blocks: the primary first, then the associated secondaries
vpc_cidrs(vpc_info) ==
    AppendAssociated(<<vpc_info.CidrBlock>>, vpc_info.CidrBlockAssociationSet, 1)

\* (mutant) the loop over the existing subnets skips the first one
used_networks_skip_first(existing_subnets) ==
    {existing_subnets[i].CidrBlock : i \in 2..Len(existing_subnets)}

\* lines 118-121: the networks of the existing subnets
used_networks(existing_subnets) ==
    {existing_subnets[i].CidrBlock : i \in 1..Len(existing_subnets)}

\* (mutant) the smallest ranges are tried first
subnet_sizes_smallest_first(subnet_size) ==
    IF subnet_size >= 24 THEN <<27, 26, 25, subnet_size>> ELSE <<subnet_size>>

\* the sizes tried, in order
subnet_sizes(subnet_size) ==
    IF subnet_size >= 24 THEN <<subnet_size, 25, 26, 27>> ELSE <<subnet_size>>

\* (mutant) the zone for a new subnet is the first available zone
available_az_first(existing_subnets, all_azs) == all_azs[1]

\* the zone for a new subnet: the first available zone without a subnet, else the first
available_az(existing_subnets, all_azs) ==
    LET existing_azs ==
            {existing_subnets[i].AvailabilityZone : i \in 1..Len(existing_subnets)}
        fresh == {i \in 1..Len(all_azs) : all_azs[i] \notin existing_azs}
    IN  IF fresh # {} THEN all_azs[CHOOSE i \in fresh : \A j \in fresh : i <= j]
        ELSE all_azs[1]

\* the indices of the ranges of a size in a block that overlap no existing subnet
FreeIndices(vpc_network, size, used) ==
    {i \in 0..(subnets_count(vpc_network, size) - 1) :
        ~(\E u \in used : overlaps(subnets_at(vpc_network, size, i), u))}

\* a or b: the first of two results that is not None
or_else(a, b) == IF a # None THEN a ELSE b

\* the least and the greatest element of a non-empty set of numbers
Least(set) == CHOOSE i \in set : \A j \in set : i <= j

Greatest(set) == CHOOSE i \in set : \A j \in set : i >= j

\* (mutant) the forward search returns the last free range
forward_search_last(vpc_network, size, free, existing_subnets, all_azs) ==
    IF free = {} \/ all_azs = <<>> THEN None
    ELSE [tag |-> "Some", cidr |-> subnets_at(vpc_network, size, Greatest(free)),
          az |-> available_az(existing_subnets, all_azs)]

\* lines 136-150: the forward search over the ranges of a size, free being the
\* indices of the ranges that overlap no existing subnet
forward_search(vpc_network, size, free, existing_subnets, all_azs) ==
    IF free = {} \/ all_azs = <<>> THEN None
    ELSE [tag |-> "Some", cidr |-> subnets_at(vpc_network, size, Least(free)),
          az |-> available_az(existing_subnets, all_azs)]

\* lines 152-164: the reverse search, from the end of the block
reverse_search(vpc_network, size, free, existing_subnets, all_azs) ==
    IF free = {} \/ all_azs = <<>> THEN None
    ELSE [tag |-> "Some", cidr |-> subnets_at(vpc_network, size, Greatest(free)),
          az |-> available_az(existing_subnets, all_azs)]

\* lines 134-164: forward search, then reverse search
search_ranges(vpc_network, size, free, existing_subnets, all_azs) ==
    or_else(forward_search(vpc_network, size, free, existing_subnets, all_azs),
            reverse_search(vpc_network, size, free, existing_subnets, all_azs))

\* (mutant) only the first range of the block is looked at
search_block_size_first_range(vpc_network, size, existing_subnets, all_azs) ==
    IF subnets_raises(vpc_network, size) THEN None
    ELSE search_ranges(vpc_network, size,
                       FreeIndices(vpc_network, size, used_networks(existing_subnets))
                           \cap {0},
                       existing_subnets, all_azs)

\* lines 133-169: one block and one size; a size the block is too small for is skipped
search_block_size(vpc_network, size, existing_subnets, all_azs) ==
    IF subnets_raises(vpc_network, size) THEN None
    ELSE search_ranges(vpc_network, size,
                       FreeIndices(vpc_network, size, used_networks(existing_subnets)),
                       existing_subnets, all_azs)

RECURSIVE search_from(_, _, _, _, _, _)
\* lines 128-132: the loops over the blocks (index b) and the sizes (index k)
search_from(cidrs, sizes, b, k, existing_subnets, all_azs) ==
    IF b > Len(cidrs) THEN None
    ELSE IF k > Len(sizes)
         THEN search_from(cidrs, sizes, b + 1, 1, existing_subnets, all_azs)
         ELSE or_else(search_block_size(cidrs[b], sizes[k], existing_subnets, all_azs),
                      search_from(cidrs, sizes, b, k + 1, existing_subnets, all_azs))

find_available_cidr(vpc_info, existing_subnets, all_azs, subnet_size) ==
    IF vpc_info = None THEN None
    ELSE search_from(vpc_cidrs(vpc_info), subnet_sizes(subnet_size), 1, 1,
                     existing_subnets, all_azs)

RECURSIVE trying_from(_, _, _, _, _, _)
\* lines 128-133: the (block, size) pairs the loops announce with "Trying to find
\* available /size subnet in block", in order, up to the pair that returns
trying_from(cidrs, sizes, b, k, existing_subnets, all_azs) ==
    IF b > Len(cidrs) THEN <<>>
    ELSE IF k > Len(sizes)
         THEN trying_from(cidrs, sizes, b + 1, 1, existing_subnets, all_azs)
         ELSE IF search_block_size(cidrs[b], sizes[k], existing_subnets, all_azs) # None
              THEN <<[block |-> cidrs[b], size |-> sizes[k]]>>
              ELSE <<[block |-> cidrs[b], size |-> sizes[k]]>>
                   \o trying_from(cidrs, sizes, b, k + 1, existing_subnets, all_azs)

\* the pairs one call of find_available_cidr announces
trying(vpc_info, existing_subnets, all_azs, subnet_size) ==
    IF vpc_info = None THEN <<>>
    ELSE trying_from(vpc_cidrs(vpc_info), subnet_sizes(subnet_size), 1, 1,
                     existing_subnets, all_azs)

----------------------------------------------------------------------------
(* suggest_subnet_cidr.                                                    *)

\* lines 208, 222: reversed(all_subnets[-n:]): the highest free range among the last
\* n of count ranges, free being the indices of the free ranges
last_free_of_tail(vpc_network, size, tail) ==
    IF tail = {} THEN None ELSE subnets_at(vpc_network, size, Greatest(tail))

\* the last n ranges of a size in a block that are free
free_tail(vpc_network, size, used, n) ==
    {i \in FreeIndices(vpc_network, size, used) :
        i >= subnets_count(vpc_network, size) - n}

\* lines 205-212 and 219-225: one block and one size, the last n ranges
suggest_block_size(vpc_network, size, used, n) ==
    IF subnets_raises(vpc_network, size) THEN None
    ELSE last_free_of_tail(vpc_network, size, free_tail(vpc_network, size, used, n))

RECURSIVE suggest_sizes(_, _, _, _)
\* lines 217-227: the fallback sizes 25, 26, 27 (index k), the last 10 ranges of each
suggest_sizes(vpc_network, sizes, k, used) ==
    IF k > Len(sizes) THEN None
    ELSE or_else(suggest_block_size(vpc_network, sizes[k], used, 10),
                 suggest_sizes(vpc_network, sizes, k + 1, used))

\* (mutant) the fallback sizes go on to /28
suggest_block_to_28(vpc_network, used) ==
    or_else(suggest_block_size(vpc_network, 24, used, 20),
            suggest_sizes(vpc_network, <<25, 26, 27, 28>>, 1, used))

\* lines 203-227: one block: the last 20 /24 ranges, then the fallback sizes
suggest_block(vpc_network, used) ==
    or_else(suggest_block_size(vpc_network, 24, used, 20),
            suggest_sizes(vpc_network, <<25, 26, 27>>, 1, used))

RECURSIVE suggest_from(_, _, _)
\* line 200: the loop over the blocks (index b)
suggest_from(cidrs, b, used) ==
    IF b > Len(cidrs) THEN None
    ELSE or_else(suggest_block(cidrs[b], used), suggest_from(cidrs, b + 1, used))

\* lines 211-212: the suggestion for a range, None for none
suggestion(range, existing_subnets, all_azs) ==
    IF range = None THEN None
    ELSE [tag |-> "Some", cidr |-> range, az |-> available_az(existing_subnets, all_azs)]

suggest_subnet_cidr(vpc_info, existing_subnets, all_azs) ==
    IF vpc_info = None THEN None
    ELSE IF all_azs = <<>> THEN None
    ELSE suggestion(suggest_from(vpc_cidrs(vpc_info), 1, used_networks(existing_subnets)),
                    existing_subnets, all_azs)

----------------------------------------------------------------------------
(* check_existing_subnet_space and create_subnet.                          *)

\* line 81: the free addresses a replacement subnet must have
MinFreeIps == 8

\* the identifier of the first of the listed subnets with an index in ok
first_subnet_id(existing_subnets, ok) ==
    IF ok = {} THEN "None" ELSE existing_subnets[Least(ok)].SubnetId

\* (mutant) the excluded subnets are not skipped
check_existing_subnet_space_no_exclude(existing_subnets, exclude_subnet_ids) ==
    first_subnet_id(existing_subnets,
        {i \in 1..Len(existing_subnets) :
            existing_subnets[i].AvailableIpAddressCount >= MinFreeIps})

\* lines 71-85: the first listed subnet that is not excluded and has at least 8 free
\* addresses
check_existing_subnet_space(existing_subnets, exclude_subnet_ids) ==
    first_subnet_id(existing_subnets,
        {i \in 1..Len(existing_subnets) :
            /\ existing_subnets[i].SubnetId \notin exclude_subnet_ids
            /\ existing_subnets[i].AvailableIpAddressCount >= MinFreeIps})

\* the identifiers the provider gives to the subnets this run creates, in order
NewSubnetIds == <<"subnet-d", "subnet-e", "subnet-f", "subnet-0", "subnet-1">>

\* the subnets of the VPC that this run created
Created == {i \in 1..Len(subnets) :
              \E k \in 1..Len(NewSubnetIds) : subnets[i].SubnetId = NewSubnetIds[k]}

\* the provider accepts a new subnet only inside an associated block of the VPC and
\* clear of every subnet the VPC holds
ProviderAccepts(cidr_block) ==
    /\ vpc # None
    /\ \E b \in 1..Len(vpc_cidrs(vpc)) : subnet_of(cidr_block, vpc_cidrs(vpc)[b])
    /\ \A i \in 1..Len(subnets) : ~overlaps(cidr_block, subnets[i].CidrBlock)
    /\ Cardinality(Created) < Len(NewSubnetIds)

\* lines 243-272: the subnet the provider creates, or None when it answers an error;
\* ok is whether the provider is willing
create_subnet(cidr_block, availability_zone, ok) ==
    IF ok /\ ProviderAccepts(cidr_block)
    THEN [SubnetId |-> NewSubnetIds[Cardinality(Created) + 1],
          CidrBlock |-> cidr_block,
          AvailabilityZone |-> availability_zone,
          AvailableIpAddressCount |-> num_addresses(cidr_block) - 5]
    ELSE None

----------------------------------------------------------------------------
(* create_network_load_balancer: the remediation cycle, lines 329-386.     *)

\* the elements of a list
Elems(seq) == {seq[i] : i \in 1..Len(seq)}

RECURSIVE Without(_, _)
\* line 343: [s for s in subnets if s not in problematic_subnets]
Without(seq, drop) ==
    IF seq = <<>> THEN <<>>
    ELSE IF Head(seq) \in drop THEN Without(Tail(seq), drop)
         ELSE <<Head(seq)>> \o Without(Tail(seq), drop)

\* (mutant) the offending subnet stays in the working set
working_subnets_keep(subnets_arg, problematic_subnets) == subnets_arg

\* line 343: the working set
working_subnets(subnets_arg, problematic_subnets) ==
    Without(subnets_arg, problematic_subnets)

\* whether the provider answers during one remediation cycle: describe_vpcs (vpc),
\* describe_subnets (subnets), describe_availability_zones (zones), create_subnet
Oks == [vpc : BOOLEAN, subnets : BOOLEAN, zones : BOOLEAN, create : BOOLEAN]

\* lines 335-340: the subnets the error message names
problematic_subnets(token) == IF token = "None" THEN {} ELSE {token}

\* lines 361-380: the cycle creates a subnet for the range chosen and retries with it
remediate_create(cycle, new_subnet) ==
    [cycle EXCEPT !.create_called = TRUE,
                  !.new_subnet = new_subnet,
                  !.retry = new_subnet # None,
                  !.extended_subnets = IF new_subnet # None
                                       THEN Append(cycle.working, new_subnet.SubnetId)
                                       ELSE <<>>]

\* (mutant) with nothing found the cycle retries with the working subnets
remediate_new_retry_anyway(cycle, found, suggested, ok) ==
    [cycle EXCEPT !.tag = "exhausted", !.retry = TRUE,
                  !.extended_subnets = cycle.working]

\* lines 360-386: no existing subnet has space: find_available_cidr, else
\* suggest_subnet_cidr, else nothing
remediate_new(cycle, found, suggested, ok) ==
    IF found # None
    THEN remediate_create([cycle EXCEPT !.tag = "found", !.found = found],
                          create_subnet(found.cidr, found.az, ok))
    ELSE IF suggested # None
    THEN remediate_create([cycle EXCEPT !.tag = "suggested", !.suggested = suggested],
                          create_subnet(suggested.cidr, suggested.az, ok))
    ELSE [cycle EXCEPT !.tag = "exhausted"]

\* lines 347-386: the search for an existing subnet with space, then for a new one
remediate_search(cycle, oks) ==
    IF cycle.existing_subnet_id # "None"
    THEN [cycle EXCEPT !.tag = "existing", !.retry = TRUE,
                       !.extended_subnets =
                           Append(cycle.working, cycle.existing_subnet_id)]
    ELSE remediate_new(cycle,
                       find_available_cidr(get_vpc_info(oks.vpc), cycle.listing,
                                           get_available_zones(oks.zones), 24),
                       suggest_subnet_cidr(get_vpc_info(oks.vpc), cycle.listing,
                                           get_available_zones(oks.zones)),
                       oks.create)

\* lines 332-386: one remediation cycle for the subnet list S of the failed attempt and
\* the token the error message named ("None": no subnet-shaped token); oks says which
\* provider calls answer. retry says whether a further attempt follows, with
\* extended_subnets.
remediate(S, token, oks) ==
    remediate_search(
        [tag |-> "start", S |-> S, token |-> token,
         working |-> working_subnets(S, problematic_subnets(token)),
         listing |-> get_existing_subnets(oks.subnets),
         existing_subnet_id |->
             check_existing_subnet_space(get_existing_subnets(oks.subnets),
                                         Elems(S) \cup problematic_subnets(token)),
         found |-> None, suggested |-> None, create_called |-> FALSE,
         new_subnet |-> None, retry |-> FALSE, extended_subnets |-> <<>>],
        oks)

----------------------------------------------------------------------------
(* SpecAlloc: the allocator on inventories drawn from bounded sets.        *)

\* the primary blocks InitAlloc draws from
PrimaryBlocks == {Net(Base, 25), Net(Base, 26)}

\* the secondary block of the drawn VPCs
SecondaryBlock == Net(Base + 256, 27)

\* the association sets InitAlloc draws from, for a primary block
AssociationSets(primary) ==
    { <<>>,
      <<[CidrBlock |-> primary, State |-> "associated"]>>,
      <<[CidrBlock |-> primary, State |-> "associated"],
        [CidrBlock |-> SecondaryBlock, State |-> "associated"]>>,
      <<[CidrBlock |-> primary, State |-> "associated"],
        [CidrBlock |-> SecondaryBlock, State |-> "disassociated"]>> }

\* a VPC whose primary block is the small one and whose secondary holds 64 addresses
SmallPrimaryVpc ==
    [CidrBlock |-> SecondaryBlock,
     CidrBlockAssociationSet |->
         <<[CidrBlock |-> SecondaryBlock, State |-> "associated"],
           [CidrBlock |-> Net(Base, 26), State |-> "associated"]>>]

\* every block a VPC declares, in any association state
DeclaredBlocks(v) ==
    {v.CidrBlock} \cup
    {v.CidrBlockAssociationSet[i].CidrBlock : i \in 1..Len(v.CidrBlockAssociationSet)}

\* the ranges a subnet of a block may occupy (prefix lengths 25 to 28)
RangesIn(block) ==
    {Net(block.addr + i * (2 ^ (32 - p)), p) :
        p \in 25..28, i \in 0..7} \cap
    {n \in [addr : block.addr..broadcast_address(block), prefix : 25..28] :
        subnet_of(n, block) /\ (n.addr - block.addr) % num_addresses(n) = 0}

ZoneNames == {"a", "b"}

\* the provider never holds two overlapping subnets in one VPC
NoOverlapWithin(ss) ==
    \A i, j \in 1..Len(ss) : i # j => ~overlaps(ss[i].CidrBlock, ss[j].CidrBlock)

\* subnet lists in address order, of at most MaxSubnets subnets
SubnetLists(v) ==
    LET ranges == UNION {RangesIn(b) : b \in DeclaredBlocks(v)}
        recs == [SubnetId : {"s"}, CidrBlock : ranges, AvailabilityZone : ZoneNames,
                 AvailableIpAddressCount : {8}]
    IN  {ss \in UNION {[1..n -> recs] : n \in 0..MaxSubnets} :
            /\ NoOverlapWithin(ss)
            /\ \A i \in 1..Len(ss) - 1 : ss[i].CidrBlock.addr < ss[i + 1].CidrBlock.addr}

\* the stress service before any request (line 23)
NoStress ==
    /\ running_stresses = <<>> /\ processes = <<>> /\ background_tasks = <<>>
    /\ removed = {} /\ response = 0

\* the deployment has not started: the state of a fresh AWSInfrastructure
Idle ==
    /\ lb = None /\ tg = "None" /\ listeners = <<>> /\ asg = FALSE
    /\ launch_template = TRUE
    /\ pc = "resolve" /\ vpc_id = "" /\ caller_subnets = <<>> /\ cur_subnets = <<>>
    /\ final_subnets = <<>> /\ nlb_arn = "pending" /\ tg_arn = "None"
    /\ elapsed = 0 /\ policy_puts = 0 /\ result = "running"
    /\ attempts = <<>> /\ offenders = <<>> /\ remedy = None /\ asg_subnets = None
    /\ calls = <<>> /\ failed = {} /\ succeeded = {} /\ signal = "none"

InitAlloc ==
    /\ mode = "alloc"
    /\ NoStress
    /\ \/ \E primary \in PrimaryBlocks :
            \E assocs \in AssociationSets(primary) :
               vpc = [CidrBlock |-> primary, CidrBlockAssociationSet |-> assocs]
       \/ vpc = SmallPrimaryVpc
    /\ subnets \in SubnetLists(vpc)
    /\ zones \in {<<>>, <<"a", "b">>}
    /\ view = None
    /\ cidr_az = None
    /\ Idle

\* one call find_available_cidr(vpc_id, subnet_size) on the inventory
CallFindAvailableCidr ==
    /\ mode = "alloc"
    /\ UNCHANGED service
    /\ view = None
    /\ \E vpc_ok, subnets_ok, zones_ok \in BOOLEAN, subnet_size \in 23..28 :
         LET vpc_info == get_vpc_info(vpc_ok)
             existing_subnets == get_existing_subnets(subnets_ok)
             all_azs == get_available_zones(zones_ok)
         IN  /\ view' = [tag |-> "find", vpc_info |-> vpc_info,
                         existing_subnets |-> existing_subnets,
                         all_azs |-> all_azs, subnet_size |-> subnet_size]
             /\ cidr_az' = find_available_cidr(vpc_info, existing_subnets,
                                               all_azs, subnet_size)
    /\ UNCHANGED <<provider, mode, process, history>>

NextAlloc == CallFindAvailableCidr

SpecAlloc == InitAlloc /\ [][NextAlloc]_vars

----------------------------------------------------------------------------
(* Spec: one run of deploy.                                                *)

\* most insufficient-space answers the provider gives in one run
MaxInsufficient == 2

\* most put_scaling_policy calls the provider answers with AlreadyExists
MaxPolicyExists == 2

\* most sequential create_listener calls of one run of SpecEnsure
MaxListenerCalls == 3

\* the subnets the VPC of a run may hold before the run
SubnetA == [SubnetId |-> "subnet-a", CidrBlock |-> Net(Base, 28),
            AvailabilityZone |-> "a", AvailableIpAddressCount |-> 7]

SubnetB(free) == [SubnetId |-> "subnet-b", CidrBlock |-> Net(Base + 16, 28),
                  AvailabilityZone |-> "b", AvailableIpAddressCount |-> free]

SubnetC == [SubnetId |-> "subnet-c", CidrBlock |-> Net(Base + 32, 27),
            AvailabilityZone |-> "a", AvailableIpAddressCount |-> 8]

\* the inventories a run starts from: any of the three subnets, listed by the provider
\* in this order or in the opposite one
Inventories ==
    {Without(listed, drop) :
        listed \in {<<SubnetA, SubnetB(free), SubnetC>> : free \in {7, 8}}
                   \cup {<<SubnetC, SubnetB(free), SubnetA>> : free \in {7, 8}},
        drop \in SUBSET {SubnetA, SubnetB(7), SubnetB(8), SubnetC}}

CallerIds == {"subnet-a", "subnet-b", "subnet-c"}

\* the SUBNET_IDS the caller may supply, as the stripped pieces of split(","): one or
\* two identifiers, a repeated identifier, empty pieces, nothing
PieceLists ==
    {<<"">>, <<"", "">>, <<"subnet-a">>, <<"subnet-b">>, <<"subnet-c">>,
     <<"subnet-a", "">>, <<"", "subnet-b">>,
     <<"subnet-a", "subnet-b">>, <<"subnet-b", "subnet-a">>, <<"subnet-a", "subnet-c">>,
     <<"subnet-c", "subnet-b">>, <<"subnet-a", "subnet-a">>}

\* the ARN the provider gives a load balancer, a target group it creates
NewLbArn == "arn:nlb:new"

OldLbArn == "arn:nlb:old"

NewTgArn == "arn:tg:new"

OldTgArn == "arn:tg:old"

\* the VPC of a run: one associated block of 64 addresses
DeployVpc == [CidrBlock |-> Net(Base, 26),
              CidrBlockAssociationSet |->
                  <<[CidrBlock |-> Net(Base, 26), State |-> "associated"]>>]

\* a previous deployment left its resources behind (old), or there was none
Leftovers(old) ==
    /\ lb = IF old THEN [arn |-> OldLbArn, subnets |-> <<"subnet-c">>] ELSE None
    /\ tg = IF old THEN OldTgArn ELSE "None"
    /\ listeners = IF old THEN <<8080>> ELSE <<>>
    /\ asg = old

Init ==
    /\ mode = "deploy"
    /\ NoStress
    /\ vpc = DeployVpc
    /\ subnets \in Inventories
    /\ zones = <<"a", "b">>
    /\ \E old \in BOOLEAN : Leftovers(old)
    /\ launch_template \in BOOLEAN
    /\ pc = "resolve" /\ vpc_id = "" /\ caller_subnets = <<>> /\ cur_subnets = <<>>
    /\ final_subnets = <<>> /\ nlb_arn = "pending" /\ tg_arn = "None"
    /\ elapsed = 0 /\ policy_puts = 0 /\ result = "running"
    /\ attempts = <<>> /\ offenders = <<>> /\ remedy = None /\ asg_subnets = None
    /\ calls = <<>> /\ failed = {} /\ succeeded = {} /\ signal = "none"
    /\ view = None /\ cidr_az = None

\* the record of the provider calls: a call repeated at once is listed once
Log(log, call) ==
    IF log # <<>> /\ log[Len(log)] = call THEN log ELSE Append(log, call)

\* the record of the steps: ok is whether the provider let the step succeed
Outcome(step, ok) ==
    /\ succeeded' = IF ok THEN succeeded \cup {step} ELSE succeeded
    /\ failed' = IF ok THEN failed ELSE failed \cup {step}

\* lines 274-303: get_vpc_and_subnets, on the VPC_ID and the pieces of SUBNET_IDS
\* that the environment or the prompt supplied
get_vpc_and_subnets(vpc_str, pieces) ==
    LET subnet_ids == Without(pieces, {""})
    IN  IF vpc_str = "" \/ subnet_ids = <<>>
        THEN [vpc_id |-> "", subnet_ids |-> <<>>]
        ELSE [vpc_id |-> vpc_str, subnet_ids |-> subnet_ids]

\* lines 628-633: deploy with what get_vpc_and_subnets returned
resolve_inputs(r) ==
    IF r.vpc_id = "" \/ r.subnet_ids = <<>>
    THEN /\ result' = "False" /\ pc' = "done"
         /\ Outcome("inputs", FALSE)
         /\ UNCHANGED <<vpc_id, caller_subnets, cur_subnets>>
    ELSE /\ vpc_id' = r.vpc_id
         /\ caller_subnets' = r.subnet_ids
         /\ cur_subnets' = r.subnet_ids
         /\ pc' = "nlb"
         /\ Outcome("inputs", TRUE)
         /\ UNCHANGED result

\* deploy, step 1 (lines 626-634)
ResolveInputs ==
    /\ mode = "deploy" /\ pc = "resolve"
    /\ UNCHANGED service
    /\ \E vpc_str \in {"", "vpc-1"}, pieces \in PieceLists :
         resolve_inputs(get_vpc_and_subnets(vpc_str, pieces))
    /\ UNCHANGED <<provider, mode, final_subnets, nlb_arn, tg_arn, elapsed, policy_puts,
                   attempts, offenders, remedy, asg_subnets, calls, signal, view,
                   cidr_az>>

\* the answers of the provider to create_load_balancer: created, a duplicate name,
\* InvalidSubnet (whose message may report insufficient address space and may name
\* a subnet), or another error
LbAnswers ==
    [code : {"created", "DuplicateLoadBalancerName", "Other"},
     insufficient : {FALSE}, token : {"None"}]
    \cup [code : {"InvalidSubnet"}, insufficient : BOOLEAN,
          token : {"None"} \cup CallerIds \cup Elems(cur_subnets)]

\* lines 323-331: what the caller can tell of the provider's answer to
\* create_load_balancer: its code, and for InvalidSubnet whether the message says
\* that address space is insufficient
InsufficientSignal == "InvalidSubnet, not enough IP space"

lb_signal(answer) ==
    IF answer.code = "InvalidSubnet" /\ answer.insufficient THEN InsufficientSignal
    ELSE answer.code

\* (mutant) the remediation does not ask for a VPC id
remediable_without_vpc(answer, vpc_id_arg) ==
    answer.code = "InvalidSubnet" /\ answer.insufficient

\* lines 329-331: the error starts a remediation cycle
remediable(answer, vpc_id_arg) ==
    answer.code = "InvalidSubnet" /\ vpc_id_arg # "" /\ answer.insufficient

\* (mutant) the duplicate name is reported as a failure
fetch_arn_by_name_surfaced(existing_arn, fetched) == "None"

\* lines 324-328 and 412-415: after a duplicate-name error the resource is fetched by
\* name and its ARN returned; a ClientError of that describe call is not caught
fetch_arn_by_name(existing_arn, fetched) ==
    IF fetched THEN existing_arn ELSE "raised"

\* lines 351-388: after the remediation cycle r, the recursive call or the return
retry_or_give_up(r) ==
    /\ remedy' = r
    /\ subnets' = IF r.new_subnet # None THEN Append(subnets, r.new_subnet) ELSE subnets
    /\ calls' = IF r.create_called
                THEN Log(Log(calls, "create_load_balancer"), "create_subnet")
                ELSE Log(calls, "create_load_balancer")
    /\ IF r.retry
       THEN cur_subnets' = r.extended_subnets /\ nlb_arn' = "pending"
       ELSE cur_subnets' = cur_subnets /\ nlb_arn' = "None"

\* one create_load_balancer call of create_network_load_balancer and what follows
\* it up to the next call or the return (lines 305-388); nlb_arn' is "pending"
\* while a recursive call follows
create_network_load_balancer ==
    /\ nlb_arn = "pending"
    /\ attempts' = Append(attempts, cur_subnets)
    /\ \E answer \in LbAnswers :
         /\ signal' = lb_signal(answer)
         /\ \/ /\ answer.code = "created"
               /\ lb = None
               /\ lb' = [arn |-> NewLbArn, subnets |-> cur_subnets]
               /\ final_subnets' = cur_subnets
               /\ nlb_arn' = NewLbArn
               /\ calls' = Log(calls, "create_load_balancer")
               /\ UNCHANGED <<subnets, cur_subnets, offenders, remedy>>
            \/ /\ answer.code = "DuplicateLoadBalancerName"
               /\ lb # None
               /\ \E fetched \in BOOLEAN :
                    \* describe_load_balancers(Names=[NLB_NAME]) answers, or raises
                    /\ nlb_arn' = fetch_arn_by_name(lb.arn, fetched)
                    /\ final_subnets' = IF fetched THEN cur_subnets ELSE final_subnets
               /\ calls' = Log(calls, "create_load_balancer")
               /\ UNCHANGED <<lb, subnets, cur_subnets, offenders, remedy>>
            \/ /\ remediable(answer, vpc_id)
               /\ Len(offenders) < MaxInsufficient
               /\ offenders' = Append(offenders, answer.token)
               /\ \E oks \in Oks :
                    retry_or_give_up(remediate(cur_subnets, answer.token, oks))
               /\ UNCHANGED <<lb, final_subnets>>
            \/ /\ answer.code \in {"InvalidSubnet", "Other"}
               /\ ~remediable(answer, vpc_id)
               /\ answer.token = "None"
               /\ nlb_arn' = "None"
               /\ calls' = Log(calls, "create_load_balancer")
               /\ UNCHANGED <<lb, subnets, cur_subnets, final_subnets, offenders,
                              remedy>>

\* what a creation call returned is an ARN
IsArn(arn) == arn \notin {"pending", "None", "raised"}

\* deploy, step 2 (lines 636-642): create_network_load_balancer and its retries
CreateNetworkLoadBalancer ==
    /\ mode = "deploy" /\ pc = "nlb"
    /\ UNCHANGED service
    /\ create_network_load_balancer
    /\ pc' = IF nlb_arn' = "pending" THEN "nlb"
             ELSE IF IsArn(nlb_arn') THEN "wait" ELSE "done"
    /\ result' = IF nlb_arn' = "None" THEN "False"
                 ELSE IF nlb_arn' = "raised" THEN "raised" ELSE result
    /\ succeeded' = IF IsArn(nlb_arn') THEN succeeded \cup {"nlb"} ELSE succeeded
    /\ failed' = IF nlb_arn' \in {"None", "raised"} THEN failed \cup {"nlb"} ELSE failed
    /\ UNCHANGED <<launch_template, vpc, zones, tg, listeners, asg, mode, vpc_id,
                   caller_subnets, tg_arn, elapsed, policy_puts, asg_subnets, view,
                   cidr_az>>

\* line 583: the default timeout of wait_for_nlb_active, in seconds
WaitTimeout == 300

\* line 597: the sleep between two polls, in seconds
PollSleep == 10

\* one pass of the loop of wait_for_nlb_active (lines 587-602) for the provider's
\* answer; slow is whether the pass outlasts the deadline
\* (mutant) the loop polls again without the clock advancing
wait_for_nlb_active_no_clock(answer, slow) ==
    IF answer = "active"
    THEN /\ pc' = "tg" /\ elapsed' = 0 /\ UNCHANGED result
         /\ Outcome("wait", TRUE)
    ELSE IF answer = "error"
    THEN /\ pc' = "done" /\ elapsed' = 0 /\ result' = "False"
         /\ Outcome("wait", FALSE)
    ELSE /\ pc' = "wait" /\ elapsed' = elapsed /\ UNCHANGED result
         /\ UNCHANGED <<succeeded, failed>>

wait_for_nlb_active(answer, slow) ==
    IF answer = "active"
    THEN /\ pc' = "tg" /\ elapsed' = 0 /\ UNCHANGED result
         /\ Outcome("wait", TRUE)
    ELSE IF answer = "error"
    THEN /\ pc' = "done" /\ elapsed' = 0 /\ result' = "False"
         /\ Outcome("wait", FALSE)
    ELSE IF elapsed + PollSleep + (IF slow THEN WaitTimeout ELSE 0) < WaitTimeout
    THEN /\ pc' = "wait" /\ elapsed' = elapsed + PollSleep /\ UNCHANGED result
         /\ UNCHANGED <<succeeded, failed>>
    ELSE /\ pc' = "done" /\ elapsed' = 0 /\ result' = "False"
         /\ Outcome("wait", FALSE)

\* wait_for_nlb_active and, when it returns, deploy's lines 644-648
WaitForNlbActive ==
    /\ mode = "deploy" /\ pc = "wait"
    /\ UNCHANGED service
    /\ elapsed < WaitTimeout
    /\ calls' = Log(calls, "describe_load_balancers(State)")
    /\ \E answer \in {"active", "provisioning", "error"}, slow \in BOOLEAN :
         /\ wait_for_nlb_active(answer, slow)
         /\ signal' = answer
    \* the record of step 2 is condensed once deploy is past it: the later steps are
    \* compared with the last attempt and with whether a remediation took place
    /\ attempts' = <<attempts[Len(attempts)]>>
    /\ offenders' = <<>>
    /\ remedy' = IF remedy = None THEN None ELSE [tag |-> "past"]
    /\ UNCHANGED <<provider, mode, vpc_id, caller_subnets, cur_subnets, final_subnets,
                   nlb_arn, tg_arn, policy_puts, asg_subnets, view, cidr_az>>

\* create_target_group (lines 390-417)
create_target_group ==
    \E answer \in {"created", "DuplicateTargetGroupName", "Other"} :
        /\ signal' = answer
        /\ \/ /\ answer = "created" /\ tg = "None"
              /\ tg' = NewTgArn /\ tg_arn' = NewTgArn
           \/ /\ answer = "DuplicateTargetGroupName" /\ tg # "None"
              /\ \E fetched \in BOOLEAN :
                   \* describe_target_groups(Names=[TARGET_GROUP_NAME]) answers, or raises
                   tg_arn' = fetch_arn_by_name(tg, fetched)
              /\ UNCHANGED tg
           \/ /\ answer = "Other"
              /\ tg_arn' = "None"
              /\ UNCHANGED tg

\* deploy, step 3 (lines 650-656)
CreateTargetGroup ==
    /\ mode = "deploy" /\ pc = "tg"
    /\ UNCHANGED service
    /\ calls' = Log(calls, "create_target_group")
    /\ create_target_group
    /\ pc' = IF IsArn(tg_arn') THEN "listener" ELSE "done"
    /\ result' = IF tg_arn' = "None" THEN "False"
                 ELSE IF tg_arn' = "raised" THEN "raised" ELSE result
    /\ Outcome("tg", IsArn(tg_arn'))
    /\ UNCHANGED <<launch_template, vpc, subnets, zones, lb, listeners, asg, mode,
                   vpc_id, caller_subnets, cur_subnets, final_subnets, nlb_arn, elapsed,
                   policy_puts, attempts, offenders, remedy, asg_subnets, view, cidr_az>>

\* line 419: the port of the listener
ListenerPort == 8080

\* create_listener (lines 419-446) and deploy's step 4 (lines 658-664)
\* (mutant) the existing listeners are not looked at
listener_on_port_unchecked(described_listeners, port) == 0

\* lines 423-427: the first listener of the describe_listeners answer that has the
\* port, as its position in the answer (which stands for its ARN); 0 when none has
listener_on_port(described_listeners, port) ==
    LET at == {i \in 1..Len(described_listeners) : described_listeners[i] = port}
    IN  IF at = {} THEN 0 ELSE Least(at)

CreateListener ==
    /\ mode = "deploy" /\ pc = "listener"
    /\ UNCHANGED service
    /\ \E described \in BOOLEAN, created \in BOOLEAN :
         IF ~described
         THEN \* describe_listeners raises
              /\ calls' = Log(calls, "describe_listeners")
              /\ pc' = "done" /\ result' = "False" /\ UNCHANGED listeners
              /\ Outcome("listener", FALSE)
         ELSE IF listener_on_port(listeners, ListenerPort) # 0
         THEN /\ calls' = Log(calls, "describe_listeners")
              /\ pc' = "asg" /\ UNCHANGED <<result, listeners>>
              /\ Outcome("listener", TRUE)
         ELSE /\ calls' = Log(Log(calls, "describe_listeners"), "create_listener")
              /\ Outcome("listener", created)
              /\ IF created
                 THEN /\ listeners' = Append(listeners, ListenerPort)
                      /\ pc' = "asg" /\ UNCHANGED result
                 ELSE /\ pc' = "done" /\ result' = "False" /\ UNCHANGED listeners
    /\ UNCHANGED <<launch_template, vpc, subnets, zones, lb, tg, asg, mode, vpc_id,
                   caller_subnets, cur_subnets, final_subnets, nlb_arn, tg_arn, elapsed,
                   policy_puts, attempts, offenders, remedy, asg_subnets, signal, view,
                   cidr_az>>

\* (mutant) the autoscaling group is placed in the caller's subnets
placement_subnets_original == caller_subnets

\* line 669: the subnets of the autoscaling group
placement_subnets == IF final_subnets # <<>> THEN final_subnets ELSE caller_subnets

\* (mutant) the creation is requested whether or not the launch template was found
asg_calls_unverified(logged, template) ==
    Log(Log(logged, "describe_launch_template_versions"), "create_auto_scaling_group")

\* lines 460-468: the provider calls of create_auto_scaling_group: the launch template
\* is verified first, and the creation is requested only when it was found
asg_calls(logged, template) ==
    IF template
    THEN Log(Log(logged, "describe_launch_template_versions"),
             "create_auto_scaling_group")
    ELSE Log(logged, "describe_launch_template_versions")

\* (mutant) an autoscaling group that exists already is a failure
asg_success_created_only(template, answer) == template /\ answer = "created"

\* lines 461-501: what create_auto_scaling_group returns; template is whether the
\* launch template was found, answer the provider's answer to the creation
asg_success(template, answer) == template /\ answer \in {"created", "AlreadyExists"}

\* create_auto_scaling_group (lines 448-501) and deploy's step 5 (lines 666-680)
CreateAutoScalingGroup ==
    /\ mode = "deploy" /\ pc = "asg"
    /\ UNCHANGED service
    /\ asg_subnets' = placement_subnets
    /\ \E template \in {launch_template},
          answer \in {"created", "AlreadyExists", "Other"} :
         /\ calls' = asg_calls(calls, template)
         /\ \/ /\ template /\ answer = "created" /\ ~asg
               /\ asg' = TRUE
            \/ /\ template /\ answer = "AlreadyExists" /\ asg
               /\ UNCHANGED asg
            \/ /\ template /\ answer = "Other"
               /\ UNCHANGED asg
            \/ \* describe_launch_template_versions raises
               /\ ~template /\ answer = "Other"
               /\ UNCHANGED asg
         /\ Outcome("asg", template /\ answer \in {"created", "AlreadyExists"})
         /\ IF asg_success(template, answer)
            THEN pc' = "warmup" /\ UNCHANGED result
            ELSE pc' = "done" /\ result' = "False"
    /\ UNCHANGED <<launch_template, vpc, subnets, zones, lb, tg, listeners, mode, vpc_id,
                   caller_subnets, cur_subnets, final_subnets, nlb_arn, tg_arn, elapsed,
                   policy_puts, attempts, offenders, remedy, signal, view, cidr_az>>

\* set_asg_instance_warmup (lines 555-567), deploy's line 684
SetAsgInstanceWarmup ==
    /\ mode = "deploy" /\ pc = "warmup"
    /\ UNCHANGED service
    /\ calls' = Log(calls, "update_auto_scaling_group")
    /\ \E ok \in BOOLEAN : Outcome("warmup", ok)
    /\ pc' = "cooldown"
    /\ UNCHANGED <<provider, mode, vpc_id, caller_subnets, cur_subnets, final_subnets,
                   nlb_arn, tg_arn, elapsed, policy_puts, result, attempts, offenders,
                   remedy, asg_subnets, signal, view, cidr_az>>

\* set_asg_default_cooldown (lines 569-581), deploy's line 685
SetAsgDefaultCooldown ==
    /\ mode = "deploy" /\ pc = "cooldown"
    /\ UNCHANGED service
    /\ calls' = Log(calls, "update_auto_scaling_group")
    /\ \E ok \in BOOLEAN : Outcome("cooldown", ok)
    /\ pc' = "policy"
    /\ UNCHANGED <<provider, mode, vpc_id, caller_subnets, cur_subnets, final_subnets,
                   nlb_arn, tg_arn, elapsed, policy_puts, result, attempts, offenders,
                   remedy, asg_subnets, signal, view, cidr_az>>

\* (mutant) the policy that exists already is not deleted before the next put
policy_calls_no_delete(logged, answer) == Log(logged, "put_scaling_policy")

\* lines 524-545: the provider calls of one pass of create_target_tracking_policy:
\* the put, and the delete of the policy when the put signals that it exists already
policy_calls(logged, answer) ==
    IF answer = "AlreadyExists"
    THEN Log(Log(logged, "put_scaling_policy"), "delete_policy")
    ELSE Log(logged, "put_scaling_policy")

\* lines 536-553: what the pass leaves as the provider's last answer: the put's code,
\* or that the delete after it was refused
policy_signal(answer, deleted) ==
    IF answer = "AlreadyExists" /\ ~deleted THEN "AlreadyExists, delete refused"
    ELSE answer

\* one put_scaling_policy call of create_target_tracking_policy and what follows it
\* up to the next put or the return (lines 503-553), deploy's step 7 (lines 688-697)
CreateTargetTrackingPolicy ==
    /\ mode = "deploy" /\ pc = "policy"
    /\ UNCHANGED service
    /\ policy_puts' = policy_puts + 1
    /\ \E answer \in {"created", "AlreadyExists", "Other"}, deleted \in BOOLEAN :
         /\ calls' = policy_calls(calls, answer)
         /\ signal' = policy_signal(answer, deleted)
         /\ \/ /\ answer = "created"
               /\ pc' = "dns" /\ Outcome("policy", TRUE)
            \/ /\ answer = "AlreadyExists"
               /\ policy_puts < MaxPolicyExists
               /\ IF deleted
                  THEN pc' = "policy" /\ UNCHANGED <<succeeded, failed>>
                  ELSE pc' = "dns" /\ Outcome("policy", FALSE)
            \/ /\ answer = "Other"
               /\ pc' = "dns" /\ Outcome("policy", FALSE)
    /\ UNCHANGED <<provider, mode, vpc_id, caller_subnets, cur_subnets, final_subnets,
                   nlb_arn, tg_arn, elapsed, result, attempts, offenders, remedy,
                   asg_subnets, view, cidr_az>>

\* get_load_balancer_dns (lines 604-613) and the end of deploy (lines 699-719)
Finish ==
    /\ mode = "deploy" /\ pc = "dns"
    /\ UNCHANGED service
    /\ calls' = Log(calls, "describe_load_balancers(DNSName)")
    /\ \E ok \in BOOLEAN : Outcome("dns", ok)
    /\ pc' = "done" /\ result' = "True"
    /\ UNCHANGED <<provider, mode, vpc_id, caller_subnets, cur_subnets, final_subnets,
                   nlb_arn, tg_arn, elapsed, policy_puts, attempts, offenders, remedy,
                   asg_subnets, signal, view, cidr_az>>

Next ==
    \/ ResolveInputs
    \/ CreateNetworkLoadBalancer
    \/ WaitForNlbActive
    \/ CreateTargetGroup
    \/ CreateListener
    \/ CreateAutoScalingGroup
    \/ SetAsgInstanceWarmup
    \/ SetAsgDefaultCooldown
    \/ CreateTargetTrackingPolicy
    \/ Finish

Spec == Init /\ [][Next]_vars

----------------------------------------------------------------------------
(* SpecEnsure: create_network_load_balancer, then create_target_group,     *)
(* each called twice in sequence with the same arguments.                  *)

\* the subnet lists the caller passes to both calls
EnsureSubnets == {<<"subnet-a">>, <<"subnet-b">>, <<"subnet-c", "subnet-b">>}

\* the inventories the two calls may start from
EnsureInventories ==
    {<<SubnetA, SubnetB(8), SubnetC>>, <<SubnetA, SubnetC>>, <<SubnetB(7)>>}

InitEnsure ==
    /\ mode = "ensure"
    /\ NoStress
    /\ vpc = DeployVpc
    /\ subnets \in EnsureInventories
    /\ zones = <<"a", "b">>
    /\ \/ /\ pc = "nlb"
          /\ \E old \in BOOLEAN : Leftovers(old)
       \/ \* the run calls create_listener for a load balancer that exists
          /\ pc = "listener"
          /\ lb = [arn |-> OldLbArn, subnets |-> <<"subnet-c">>]
          /\ tg = OldTgArn /\ asg = FALSE
          /\ listeners \in {<<>>, <<ListenerPort>>, <<ListenerPort + 1>>}
    /\ launch_template = TRUE
    /\ vpc_id \in {"", "vpc-1"}
    /\ caller_subnets \in EnsureSubnets /\ cur_subnets = caller_subnets
    /\ final_subnets = <<>> /\ nlb_arn = "pending" /\ tg_arn = "None"
    /\ elapsed = 0 /\ policy_puts = 0 /\ result = "running"
    /\ attempts = <<>> /\ offenders = <<>> /\ remedy = None /\ asg_subnets = None
    /\ calls = <<>> /\ failed = {} /\ succeeded = {} /\ signal = "none"
    /\ view = [tag |-> "ensure", nlb |-> <<>>, tg |-> <<>>, listener |-> <<>>]
    /\ cidr_az = None

\* one create_load_balancer call of the create_network_load_balancer call in progress
EnsureLoadBalancer ==
    /\ mode = "ensure" /\ pc = "nlb"
    /\ UNCHANGED service
    /\ create_network_load_balancer
    /\ UNCHANGED <<launch_template, vpc, zones, tg, listeners, asg, mode, pc, vpc_id,
                   caller_subnets, tg_arn, elapsed, policy_puts, result, asg_subnets,
                   failed, succeeded, view, cidr_az>>

\* the create_network_load_balancer call ended; the caller has what it returned (or
\* what it raised) and the provider's last signal; it calls again, once
CallAgain ==
    /\ mode = "ensure" /\ pc = "nlb"
    /\ UNCHANGED service
    /\ nlb_arn # "pending"
    /\ view' = [view EXCEPT !.nlb = Append(@, [arn |-> nlb_arn, signal |-> signal])]
    /\ nlb_arn' = "pending"
    /\ cur_subnets' = caller_subnets
    /\ pc' = IF Len(view.nlb) = 1 THEN "tg" ELSE "nlb"
    \* the record of the attempts is dropped once both calls have ended
    /\ attempts' = IF Len(view.nlb) = 1 THEN <<>> ELSE attempts
    /\ offenders' = IF Len(view.nlb) = 1 THEN <<>> ELSE offenders
    /\ remedy' = IF Len(view.nlb) = 1 THEN None ELSE remedy
    /\ calls' = IF Len(view.nlb) = 1 THEN <<>> ELSE calls
    /\ UNCHANGED <<provider, mode, vpc_id, caller_subnets, final_subnets, tg_arn,
                   elapsed, policy_puts, result, asg_subnets, failed, succeeded, signal,
                   cidr_az>>

\* one call of create_target_group, the first or the second
EnsureTargetGroup ==
    /\ mode = "ensure" /\ pc = "tg"
    /\ UNCHANGED service
    /\ create_target_group
    /\ calls' = Log(calls, "create_target_group")
    /\ view' = [view EXCEPT !.tg = Append(@, [arn |-> tg_arn', signal |-> signal'])]
    /\ pc' = IF Len(view.tg) = 1 THEN "done" ELSE "tg"
    /\ UNCHANGED <<launch_template, vpc, subnets, zones, lb, listeners, asg, mode,
                   vpc_id, caller_subnets, cur_subnets, final_subnets, nlb_arn, elapsed,
                   policy_puts, result, attempts, offenders, remedy, asg_subnets, failed,
                   succeeded, cidr_az>>

\* the ports the sequential create_listener calls are made for
ListenerPorts == {ListenerPort, ListenerPort + 1}

\* lines 419-446: create_listener(load_balancer_arn, target_group_arn, port) on the
\* listeners the provider holds: what describe_listeners listed, whether
\* create_listener was called, the listeners afterwards and the ARN returned (0: None)
create_listener(port, described, created) ==
    IF ~described
    THEN [port |-> port, listed |-> <<>>, create_called |-> FALSE,
          listeners |-> listeners, arn |-> 0]
    ELSE IF listener_on_port(listeners, port) # 0
    THEN [port |-> port, listed |-> listeners, create_called |-> FALSE,
          listeners |-> listeners, arn |-> listener_on_port(listeners, port)]
    ELSE IF created
    THEN [port |-> port, listed |-> listeners, create_called |-> TRUE,
          listeners |-> Append(listeners, port), arn |-> Len(listeners) + 1]
    ELSE [port |-> port, listed |-> listeners, create_called |-> TRUE,
          listeners |-> listeners, arn |-> 0]

\* one call of create_listener for the load balancer, after the calls before it
\* have returned
EnsureListener ==
    /\ mode = "ensure" /\ pc = "listener"
    /\ UNCHANGED service
    /\ Len(view.listener) < MaxListenerCalls
    /\ \E port \in ListenerPorts, described \in BOOLEAN, created \in BOOLEAN :
         /\ listeners' = create_listener(port, described, created).listeners
         /\ view' = [view EXCEPT !.listener =
                         Append(@, create_listener(port, described, created))]
         /\ calls' = IF create_listener(port, described, created).create_called
                     THEN Log(Log(calls, "describe_listeners"), "create_listener")
                     ELSE Log(calls, "describe_listeners")
    /\ UNCHANGED <<launch_template, vpc, subnets, zones, lb, tg, asg, mode, process,
                   attempts, offenders, remedy, asg_subnets, failed, succeeded, signal,
                   cidr_az>>

NextEnsure == EnsureLoadBalancer \/ CallAgain \/ EnsureTargetGroup \/ EnsureListener

SpecEnsure == InitEnsure /\ [][NextEnsure]_vars

----------------------------------------------------------------------------
(* SpecApp: the stress service of src/app.py. The handlers are coroutines  *)
(* of one event loop and none of them awaits, so each runs from its first  *)
(* line to its return as one step; cleanup_process awaits once, in its     *)
(* sleep, and runs as one step from there. The stress-ng processes end on  *)
(* their own, whenever they do.                                            *)

\* most stress-ng processes started in one run
MaxStarts == 2

\* the process ids the system hands out are 1..MaxPids
MaxPids == 2

Pids == 1..MaxPids

\* the process has ended: on its own ("finished") or after a SIGTERM ("stopped")
ended(proc) == proc.state \in {"finished", "stopped"}

\* the process ids the system can give to a new process: those of no process that
\* runs or that has ended and was not waited for
FreePids(procs) ==
    Pids \ {procs[i].pid : i \in {j \in 1..Len(procs) : procs[j].returncode = "None"}}

\* Popen.poll() (lines 222, 240): the process object after the call; the return code
\* is set once the process has ended
poll(proc) ==
    [proc EXCEPT !.returncode = IF ended(proc) THEN "set" ELSE @]

\* (mutant) every process polled counts as finished
has_finished_unpolled(proc) == TRUE

\* lines 222, 240: process.poll() is not None
has_finished(proc) == poll(proc).returncode # "None"

\* del running_stresses[pid] (lines 206, 210, 226, 241)
del(registry, pid) == [k \in DOMAIN registry \ {pid} |-> registry[k]]

\* the record of one del statement: who executed it, whether the key was there and
\* the state of the process registered under it
deletion(by, registry, procs, pid) ==
    [by |-> by, pid |-> pid, present |-> pid \in DOMAIN registry,
     state |-> IF pid \in DOMAIN registry THEN procs[registry[pid]].state
               ELSE "absent"]

\* running_stresses[process_id] = process (line 177)
register(registry, pid, proc) ==
    [k \in DOMAIN registry \cup {pid} |-> IF k = pid THEN proc ELSE registry[k]]

InitApp ==
    /\ mode = "app"
    /\ NoStress
    /\ vpc = None /\ subnets = <<>> /\ zones = <<>>
    /\ view = None /\ cidr_az = None
    /\ Idle

\* start_stress (lines 142-192): stress-ng is missing or Popen raises (status 500),
\* or the process is started, registered and its cleanup task scheduled
StartStress ==
    /\ mode = "app"
    /\ removed' = {}
    /\ \/ /\ response' = 500
          /\ UNCHANGED <<running_stresses, processes, background_tasks>>
       \/ /\ Len(processes) < MaxStarts
          /\ \E process_id \in FreePids(processes) :
               /\ processes' = Append(processes,
                                      [pid |-> process_id, state |-> "running",
                                       returncode |-> "None"])
               /\ running_stresses' =
                      register(running_stresses, process_id, Len(processes) + 1)
               /\ background_tasks' =
                      Append(background_tasks,
                             [process_id |-> process_id, state |-> "sleeping"])
          /\ response' = 200
    /\ UNCHANGED <<infrastructure, mode>>

\* lines 204-205 for a process that has not ended: the SIGTERM ends it within the five
\* seconds of the wait (in_time) or it does not
terminate(proc, in_time) ==
    IF in_time THEN [proc EXCEPT !.state = "stopped", !.returncode = "set"]
    ELSE [proc EXCEPT !.state = "terminating"]

\* stop_stress (lines 195-214) for a registered process id. The process has ended
\* and os.getpgid does not find it (gone: line 210), or it is signalled and waited
\* for: the wait returns (line 206) or times out (status 500, the entry stays)
stop_stress(registry, procs, process_id, gone, in_time) ==
    LET i == registry[process_id]
    IN  IF ended(procs[i]) /\ gone
        THEN [running_stresses |-> del(registry, process_id), processes |-> procs,
              removed |-> {deletion("stop", registry, procs, process_id)},
              response |-> 200]
        ELSE IF ended(procs[i])
        THEN [running_stresses |-> del(registry, process_id),
              processes |-> [procs EXCEPT ![i] = poll(@)],
              removed |-> {deletion("stop", registry, [procs EXCEPT ![i] = poll(@)],
                                    process_id)},
              response |-> 200]
        ELSE IF in_time
        THEN [running_stresses |-> del(registry, process_id),
              processes |-> [procs EXCEPT ![i] = terminate(@, TRUE)],
              removed |-> {deletion("stop", registry,
                                    [procs EXCEPT ![i] = terminate(@, TRUE)],
                                    process_id)},
              response |-> 200]
        ELSE [running_stresses |-> registry,
              processes |-> [procs EXCEPT ![i] = terminate(@, FALSE)],
              removed |-> {}, response |-> 500]

\* DELETE /stress/{process_id} (lines 195-214); an id that is not registered is
\* answered 404 (lines 198-199)
StopStress ==
    /\ mode = "app"
    /\ \E process_id \in Pids, gone \in BOOLEAN, in_time \in BOOLEAN :
         IF process_id \notin DOMAIN running_stresses
         THEN /\ response' = 404 /\ removed' = {}
              /\ UNCHANGED <<running_stresses, processes>>
         ELSE LET r == stop_stress(running_stresses, processes, process_id, gone,
                                   in_time)
              IN  /\ running_stresses' = r.running_stresses
                  /\ processes' = r.processes
                  /\ removed' = r.removed
                  /\ response' = r.response
    /\ UNCHANGED <<background_tasks, infrastructure, mode>>

\* lines 221-226: the entries of the snapshot whose process poll() finds finished
finished_entries(registry, procs) ==
    {pid \in DOMAIN registry : has_finished(procs[registry[pid]])}

\* the process objects after each registered one has been polled (line 222)
polled(registry, procs) ==
    [i \in 1..Len(procs) |->
        IF \E pid \in DOMAIN registry : registry[pid] = i THEN poll(procs[i])
        ELSE procs[i]]

\* GET /stress, list_stresses (lines 217-231): every entry whose process has finished
\* is deleted
ListStresses ==
    /\ mode = "app"
    /\ processes' = polled(running_stresses, processes)
    /\ running_stresses' =
           [pid \in DOMAIN running_stresses \
                    finished_entries(running_stresses, processes) |->
               running_stresses[pid]]
    /\ removed' = {deletion("list", running_stresses, processes', pid) :
                      pid \in finished_entries(running_stresses, processes)}
    /\ response' = 200
    /\ UNCHANGED <<background_tasks, infrastructure, mode>>

\* lines 238-241: what cleanup_process deletes when its sleep is over: the entry of
\* its process id, if there is one and its process has finished
cleanup_process(registry, procs, process_id) ==
    IF process_id \in DOMAIN registry /\ has_finished(procs[registry[process_id]])
    THEN {process_id}
    ELSE {}

\* the sleep of a cleanup_process task is over (line 237) and the task runs to its
\* end (lines 238-242)
CleanupProcess ==
    /\ mode = "app"
    /\ \E t \in 1..Len(background_tasks) :
         /\ background_tasks[t].state = "sleeping"
         /\ background_tasks' = [background_tasks EXCEPT ![t].state = "done"]
         /\ LET process_id == background_tasks[t].process_id
                gone == cleanup_process(running_stresses, processes, process_id)
            IN  /\ processes' =
                       IF process_id \in DOMAIN running_stresses
                       THEN [processes EXCEPT ![running_stresses[process_id]] = poll(@)]
                       ELSE processes
                /\ running_stresses' =
                       [pid \in DOMAIN running_stresses \ gone |-> running_stresses[pid]]
                /\ removed' = {deletion("cleanup", running_stresses, processes', pid) :
                                  pid \in gone}
    /\ UNCHANGED <<response, infrastructure, mode>>

\* a stress-ng process ends: its timeout is over or the SIGTERM sent earlier takes
\* effect (the command of lines 160-165)
ProcessEnds ==
    /\ mode = "app"
    /\ \E i \in 1..Len(processes) :
         /\ ~ended(processes[i])
         /\ processes' =
                [processes EXCEPT ![i].state =
                    IF @ = "terminating" THEN "stopped" ELSE "finished"]
    /\ UNCHANGED <<running_stresses, background_tasks, removed, response,
                   infrastructure, mode>>

NextApp ==
    \/ StartStress
    \/ StopStress
    \/ ListStresses
    \/ CleanupProcess
    \/ ProcessEnds

SpecApp == InitApp /\ [][NextApp]_vars

----------------------------------------------------------------------------
(* Properties of the allocator, checked under SpecAlloc.                   *)

\* the address intervals of two networks intersect
Intersects(a, b) == a.addr <= broadcast_address(b) /\ b.addr <= broadcast_address(a)

\* the blocks of a VPC: the primary and the secondaries in state associated
BlocksOf(vpc_info) ==
    {vpc_info.CidrBlock} \cup
    {vpc_info.CidrBlockAssociationSet[i].CidrBlock :
        i \in {j \in 1..Len(vpc_info.CidrBlockAssociationSet) :
                 vpc_info.CidrBlockAssociationSet[j].State = "associated"}}

\* the CIDRs of the subnets the call read
SeenCidrs == {view.existing_subnets[i].CidrBlock : i \in 1..Len(view.existing_subnets)}

\* the sizes find_available_cidr tries for a requested size
TriedSizes(subnet_size) ==
    IF subnet_size >= 24 THEN {subnet_size, 25, 26, 27} ELSE {subnet_size}

\* every aligned range of a size inside a block
AlignedRanges(block, size) ==
    IF size < block.prefix THEN {}
    ELSE {Net(block.addr + i * (2 ^ (32 - size)), size) :
             i \in 0..((2 ^ (size - block.prefix)) - 1)}

FindReturned == mode = "alloc" /\ view # None /\ view.tag = "find"

\* C1: a (CIDR, zone) pair returned by find_available_cidr overlaps no existing
\* subnet's CIDR of the inventory it read and lies entirely within one of the
\* VPC's CIDR blocks (the primary or an associated secondary).
C1_NoOverlapWithinBlock ==
    (FindReturned /\ cidr_az # None) =>
        /\ \A u \in SeenCidrs : ~Intersects(cidr_az.cidr, u)
        /\ \E b \in BlocksOf(view.vpc_info) : subnet_of(cidr_az.cidr, b)

\* C1 witness: a candidate was returned for a VPC with two blocks and two existing
\* subnets, and it is not the first range of its block (the first one is taken).
C1_Witness ==
    /\ FindReturned /\ cidr_az # None
    /\ Cardinality(BlocksOf(view.vpc_info)) = 2
    /\ Len(view.existing_subnets) = 2
    /\ \A b \in BlocksOf(view.vpc_info) : cidr_az.cidr.addr # b.addr

\* every range of every tried size in every block overlaps an existing subnet
Exhausted ==
    \A b \in BlocksOf(view.vpc_info) :
        \A size \in {z \in TriedSizes(view.subnet_size) : z >= b.prefix} :
            \A r \in AlignedRanges(b, size) : \E u \in SeenCidrs : Intersects(r, u)

\* C2: when the existing subnets overlap every range of every tried size in every
\* block of the VPC, find_available_cidr returns None, never a candidate.
C2_ExhaustedReturnsNone ==
    (FindReturned /\ view.vpc_info # None /\ Exhausted) => cidr_az = None

\* C2 witness: zones are available and the VPC is covered by two subnets neither of
\* which starts at a block's first address, so that exhaustion is not by containment
\* of the candidates' first addresses alone.
C2_Witness ==
    /\ FindReturned /\ view.vpc_info # None /\ Exhausted
    /\ view.all_azs # <<>>
    /\ view.subnet_size = 24
    /\ Len(view.existing_subnets) = 2
    /\ \A u \in SeenCidrs : \A b \in BlocksOf(view.vpc_info) : u.addr # b.addr
    /\ cidr_az = None

\* the ranges of a size in a block that intersect no subnet the call read
FreeRanges(block, size) ==
    {r \in AlignedRanges(block, size) : \A u \in SeenCidrs : ~Intersects(r, u)}

SeenZones ==
    {view.existing_subnets[i].AvailabilityZone : i \in 1..Len(view.existing_subnets)}

\* zone number i is the first available zone, in provider order, without a subnet
FirstUnusedZone(i) ==
    /\ view.all_azs[i] \notin SeenZones
    /\ \A j \in 1..(i - 1) : view.all_azs[j] \in SeenZones

\* C12: the zone returned with a candidate range is the first available zone, in
\* provider order, that hosts no existing subnet of the VPC, or the first available
\* zone when every available zone hosts one; with a free range of a tried size there
\* is no candidate only when the provider reports no available zone
C12_ZoneOfCandidate ==
    /\ (FindReturned /\ cidr_az # None) =>
          /\ view.all_azs # <<>>
          /\ \/ \E i \in 1..Len(view.all_azs) :
                   FirstUnusedZone(i) /\ cidr_az.az = view.all_azs[i]
             \/ /\ \A i \in 1..Len(view.all_azs) : view.all_azs[i] \in SeenZones
                /\ cidr_az.az = view.all_azs[1]
    /\ (FindReturned /\ view.vpc_info # None /\ ~Exhausted /\ cidr_az = None) =>
          view.all_azs = <<>>

\* C12 witness: the first available zone hosts a subnet and the second does not, and
\* the candidate is placed in the second
C12_Witness ==
    /\ FindReturned /\ cidr_az # None
    /\ Len(view.all_azs) = 2
    /\ view.all_azs[1] \in SeenZones
    /\ FirstUnusedZone(2)
    /\ cidr_az.az = view.all_azs[2]

\* every available zone hosts a subnet and the candidate is placed in the first
C12_WitnessAllUsed ==
    /\ FindReturned /\ cidr_az # None
    /\ \A i \in 1..Len(view.all_azs) : view.all_azs[i] \in SeenZones
    /\ cidr_az.az = view.all_azs[1]

\* a listing in which one subnet covers each block of the VPC: no range of any size
\* is free
CoveringSubnets ==
    [i \in 1..Len(vpc_cidrs(vpc)) |->
        [SubnetId |-> "s", CidrBlock |-> vpc_cidrs(vpc)[i],
         AvailabilityZone |-> "a", AvailableIpAddressCount |-> MinFreeIps]]

\* what find_available_cidr returns for this VPC and the requested size when the
\* provider answers every call and the subnets cover every block: the exhausted outcome
ExhaustedOutcome ==
    find_available_cidr(vpc, CoveringSubnets, <<"a", "b">>, view.subnet_size)

\* the call ended on a provider call that failed: the VPC was not described, or no
\* zone came back for a range that was free
ProviderFailed ==
    \/ view.vpc_info = None
    \/ view.all_azs = <<>> /\ ~Exhausted

\* C16: the result of find_available_cidr when a provider call fails is never the
\* result it gives when no block/size combination has a free range
C16_ExhaustedDistinctFromFailure ==
    (FindReturned /\ ProviderFailed) => cidr_az # ExhaustedOutcome

\* the (block, size) pairs the call announced
Announced ==
    trying(view.vpc_info, view.existing_subnets, view.all_azs, view.subnet_size)

\* the sizes the call announced for a block, in order
TryingIn(block) ==
    LET at == {i \in 1..Len(Announced) : Announced[i].block = block}
    IN  [k \in 1..Cardinality(at) |->
            Announced[CHOOSE i \in at :
                          Cardinality({j \in at : j <= i}) = k].size]

\* C17: for a requested prefix length p of at least 24 the sizes are tried in
\* increasing prefix-length order starting at p and a returned range has no prefix
\* shorter than p; for p below 24 a returned range has prefix p
C17_SizesIncreasingFromRequested ==
    FindReturned =>
        /\ view.subnet_size >= 24 =>
              /\ \A i \in 1..Len(Announced) :
                    LET t == TryingIn(Announced[i].block)
                    IN  /\ t[1] = view.subnet_size
                        /\ \A k \in 1..Len(t) - 1 : t[k] < t[k + 1]
              /\ cidr_az # None => cidr_az.cidr.prefix >= view.subnet_size
        /\ (view.subnet_size < 24 /\ cidr_az # None) =>
              cidr_az.cidr.prefix = view.subnet_size

\* what suggest_subnet_cidr returns on the inventory the call read
Suggested == suggest_subnet_cidr(view.vpc_info, view.existing_subnets, view.all_azs)

ReturnedSmaller ==
    FindReturned /\ cidr_az # None /\ cidr_az.cidr.prefix > view.subnet_size

\* the position, in the order the blocks are tried, of the block the returned range
\* lies in
ReturnedBlock ==
    Least({j \in 1..Len(vpc_cidrs(view.vpc_info)) :
              subnet_of(cidr_az.cidr, vpc_cidrs(view.vpc_info)[j])})

SomeFreeRange ==
    \E b \in BlocksOf(view.vpc_info) :
        \E size \in TriedSizes(view.subnet_size) : FreeRanges(b, size) # {}

\* C29: when at least one zone is available and some block of the VPC contains a
\* range of a tried size that overlaps no existing subnet, find_available_cidr
\* returns a candidate
C29_FreeRangeIsFound ==
    (/\ FindReturned /\ view.vpc_info # None /\ view.all_azs # <<>>
     /\ SomeFreeRange) =>
        cidr_az # None

\* the only free ranges are in the second block, not at its start, and of the last
\* size tried; the call returned one of them
C29_Witness ==
    /\ FindReturned /\ view.vpc_info # None /\ view.all_azs # <<>>
    /\ view.subnet_size = 24
    /\ Len(vpc_cidrs(view.vpc_info)) = 2
    /\ \A size \in 24..27 : FreeRanges(vpc_cidrs(view.vpc_info)[1], size) = {}
    /\ \A size \in 24..26 : FreeRanges(vpc_cidrs(view.vpc_info)[2], size) = {}
    /\ cidr_az # None /\ cidr_az.cidr.prefix = 27
    /\ cidr_az.cidr.addr > vpc_cidrs(view.vpc_info)[2].addr

----------------------------------------------------------------------------
(* Properties of the retry orchestrator and of deploy, checked under Spec. *)

\* every insufficient-space error of the run named a subnet, and no two the same one
NamedDistinct(tokens) ==
    /\ \A i \in 1..Len(tokens) : tokens[i] # "None"
    /\ \A i, j \in 1..Len(tokens) : i # j => tokens[i] # tokens[j]

\* C3: after insufficient-address-space answers that each name a distinct offending
\* subnet, create_network_load_balancer has issued at most one creation attempt more
\* than it received such answers, and when it ends it ends with a load-balancer ARN or
\* with None
C3_EndsWithArnOrNone ==
    (offenders # <<>> /\ NamedDistinct(offenders)) =>
        /\ Len(attempts) <= Len(offenders) + 1
        /\ nlb_arn # "pending" => (IsArn(nlb_arn) \/ nlb_arn = "None")

\* C4: within one run of the retry orchestrator no two load-balancer creation attempts
\* are issued with the same subnet set
C4_NoSubnetSetTwice ==
    \A i, j \in 1..Len(attempts) :
        i < j => Elems(attempts[i]) # Elems(attempts[j])

\* C5: when deploy reaches the creation of the autoscaling group after a remediation,
\* the subnet list it passes to create_auto_scaling_group is the subnet list of the
\* last load-balancer creation attempt
C5_AsgInLastAttemptSubnets ==
    ("asg" \in succeeded \cup failed /\ remedy # None) =>
        asg_subnets = attempts[Len(attempts)]

\* a run in which the remediation changed the subnet list and the autoscaling group
\* was placed in the changed list
C5_Witness ==
    /\ "asg" \in succeeded /\ remedy # None
    /\ asg_subnets = attempts[Len(attempts)]
    /\ asg_subnets # caller_subnets
    /\ "create_auto_scaling_group" \in Elems(calls)

\* the step of the fixed order that a provider call belongs to
StepOf(call) ==
    CASE call \in {"create_load_balancer", "create_subnet"} -> 1
      [] call = "describe_load_balancers(State)" -> 2
      [] call = "create_target_group" -> 3
      [] call \in {"describe_listeners", "create_listener"} -> 4
      [] call \in {"describe_launch_template_versions",
                   "create_auto_scaling_group"} -> 5
      [] call = "update_auto_scaling_group" -> 6
      [] call \in {"put_scaling_policy", "delete_policy"} -> 7
      [] call = "describe_load_balancers(DNSName)" -> 8

\* the number of the step of deploy in the fixed order
StepNumber(step) ==
    CASE step = "nlb" -> 1 [] step = "wait" -> 2 [] step = "tg" -> 3
      [] step = "listener" -> 4

\* C7: the provider calls of a run of deploy follow the fixed order of the steps
\* without skipping one, and when load-balancer creation, the activation wait,
\* target-group creation or listener creation fails, deploy returns False and no call
\* of a later step is issued
C7_StepsFormPrefix ==
    /\ calls # <<>> => StepOf(calls[1]) = 1
    /\ \A i \in 1..Len(calls) - 1 :
          StepOf(calls[i + 1]) \in {StepOf(calls[i]), StepOf(calls[i]) + 1}
    /\ \A step \in {"nlb", "wait", "tg", "listener"} \cap failed :
          /\ result = "False"
          /\ \A i \in 1..Len(calls) : StepOf(calls[i]) <= StepNumber(step)

\* the steps deploy requires, and the steps it only attempts
Required == {"inputs", "nlb", "wait", "tg", "listener", "asg"}

BestEffort == {"warmup", "cooldown", "policy"}

\* C8: deploy returns True exactly when input resolution, load-balancer creation, the
\* activation wait, target-group creation, listener creation and autoscaling-group
\* creation (new or existing) all succeeded; a failing warmup, cooldown or
\* scaling-policy step neither makes deploy return False nor keeps a later step from
\* running
C8_TrueIffRequiredSucceed ==
    /\ result = "True" <=> (pc = "done" /\ Required \subseteq succeeded)
    /\ Required \subseteq succeeded => result \in {"running", "True"}
    /\ (pc = "done" /\ Required \subseteq succeeded) =>
          /\ BestEffort \subseteq succeeded \cup failed
          /\ \E i \in 1..Len(calls) : calls[i] = "put_scaling_policy"
    /\ \A step \in BestEffort \cap (succeeded \cup failed) : Required \subseteq succeeded

\* deploy returned True although warmup, cooldown and scaling policy all failed, the
\* autoscaling group being one that existed before
C8_Witness ==
    /\ result = "True" /\ pc = "done"
    /\ BestEffort \subseteq failed
    /\ Required \subseteq succeeded
    /\ lb # None /\ lb.arn = OldLbArn

\* the listed subnets outside S with at least 8 free addresses
Qualifying(listing, S) ==
    {i \in 1..Len(listing) :
        /\ listing[i].SubnetId \notin Elems(S)
        /\ listing[i].AvailableIpAddressCount >= 8}

\* the attempt after the one with subnets S that failed naming P is issued with
\* (S minus P) plus Q, and when it succeeds its ARN is returned and recorded
SwappedFor(S, P, Q, n) ==
    /\ attempts[n] = S
    /\ Len(attempts) = n =>
          /\ pc = "nlb" /\ nlb_arn = "pending"
          /\ cur_subnets = Append(Without(S, {P}), Q)
    /\ Len(attempts) > n =>
          /\ attempts[n + 1] = Append(Without(S, {P}), Q)
          /\ signal = "created" =>
                /\ IsArn(nlb_arn) /\ lb # None /\ nlb_arn = lb.arn
                /\ lb.subnets = Append(Without(S, {P}), Q)
                /\ final_subnets = Append(Without(S, {P}), Q)

\* C9: when a creation attempt with subnet set S fails with insufficient address space
\* naming a subnet P of S, and a subnet Q of the VPC outside S has at least 8 free
\* addresses, the next attempt is issued with (S minus P) plus Q; when that attempt
\* succeeds its ARN is returned and final_subnets is (S minus P) plus Q
C9_SwapsOffenderForSubnetWithSpace ==
    (/\ remedy # None /\ remedy.tag # "past"
     /\ remedy.token \in Elems(remedy.S)
     /\ Qualifying(remedy.listing, remedy.S) # {}) =>
        \E i \in Qualifying(remedy.listing, remedy.S) :
            /\ \E k \in 1..Len(subnets) : subnets[k] = remedy.listing[i]
            /\ SwappedFor(remedy.S, remedy.token, remedy.listing[i].SubnetId,
                          Len(offenders))

\* a run in which the attempt with a subnet swapped for the offending one of two
\* succeeded
C9_Witness ==
    /\ remedy # None /\ remedy.tag = "existing"
    /\ remedy.token \in Elems(remedy.S)
    /\ Len(remedy.S) = 2
    /\ Len(attempts) = Len(offenders) + 1
    /\ signal = "created" /\ nlb_arn = NewLbArn
    /\ final_subnets = Append(Without(remedy.S, {remedy.token}),
                              remedy.existing_subnet_id)
    /\ Len(final_subnets) = 2

\* no subnet of the VPC outside S and other than the named one has 8 free addresses
NoneQualifies(S, token) ==
    \A i \in 1..Len(subnets) :
        \/ subnets[i].SubnetId \in Elems(S) \cup {token}
        \/ subnets[i].AvailableIpAddressCount < 8

\* every range of sizes /24 to /27 of every associated block of the VPC intersects a
\* subnet of the VPC
NoFreeRange ==
    \A block \in BlocksOf(vpc) : \A size \in 24..27 :
        size >= block.prefix =>
            \A k \in 0..(2 ^ (size - block.prefix) - 1) :
                \E i \in 1..Len(subnets) :
                    Intersects(Net(block.addr + k * (2 ^ (32 - size)), size),
                               subnets[i].CidrBlock)

\* the provider calls of target-group, listener and autoscaling-group creation
LaterCalls ==
    {"create_target_group", "describe_listeners", "create_listener",
     "describe_launch_template_versions", "create_auto_scaling_group"}

\* an attempt is answered with insufficient address space while no subnet qualifies
\* and the VPC has no free range
Exhausting ==
    /\ pc = "nlb"
    /\ Len(offenders') = Len(offenders) + 1
    /\ NoneQualifies(cur_subnets, offenders'[Len(offenders')])
    /\ NoFreeRange

\* create_network_load_balancer returned no ARN, created no subnet and issued no
\* further attempt; deploy returned False before the later steps
Reported ==
    /\ nlb_arn = "None"
    /\ pc = "done" /\ result = "False"
    /\ \A i \in 1..Len(calls) : calls[i] \notin LaterCalls

\* C10: when load-balancer creation fails with insufficient address space, no existing
\* subnet qualifies and the VPC has no free address range, create_network_load_balancer
\* returns no ARN without creating a subnet and without a further creation attempt,
\* and deploy returns False without any target-group, listener or autoscaling-group
\* call; nothing follows the return of deploy
C10_ExhaustedAborts ==
    [][/\ pc # "done"
       /\ Exhausting => (Reported' /\ subnets' = subnets
                         /\ Len(attempts') = Len(attempts) + 1)]_vars

\* a run that ended in exhaustion on an accurate listing of a full VPC
C10_Witness ==
    /\ remedy # None /\ remedy.tag = "exhausted"
    /\ remedy.listing = subnets /\ subnets # <<>>
    /\ NoneQualifies(remedy.S, remedy.token)
    /\ NoFreeRange
    /\ Reported

\* the subnet list of the attempt that follows the last remediation cycle, issued
\* already or about to be
NextAttempt ==
    IF Len(attempts) > Len(offenders) THEN attempts[Len(offenders) + 1]
    ELSE cur_subnets

\* the last insufficient-space answer started a cycle that ends in a further attempt
Retrying == remedy # None /\ remedy.tag # "past" /\ remedy.retry

\* C13: when the insufficient-address-space message holds no subnet-id-shaped token,
\* every subnet of the failed attempt is removed from the working set, and none of
\* them is in the next creation attempt
C13_NoTokenDropsWholeSet ==
    (Retrying /\ remedy.token = "None") =>
        /\ remedy.working = <<>>
        /\ Elems(NextAttempt) \cap Elems(remedy.S) = {}

\* the listed subnets that qualify as replacement in the last cycle: not in the failed
\* attempt, not the one named, at least 8 free addresses
Replacements ==
    {i \in 1..Len(remedy.listing) :
        /\ remedy.listing[i].SubnetId \notin Elems(remedy.S) \cup {remedy.token}
        /\ remedy.listing[i].AvailableIpAddressCount >= MinFreeIps}

\* the zones of the subnets the last cycle kept from the failed attempt
WorkingZones ==
    {remedy.listing[k].AvailabilityZone :
        k \in {j \in 1..Len(remedy.listing) :
                  remedy.listing[j].SubnetId \in Elems(remedy.working)}}

\* C14: when several existing subnets qualify as replacement and one of them lies in
\* a zone that no subnet of the working set is in, the subnet chosen lies in a zone
\* that no subnet of the working set is in
C14_ReplacementInOtherZone ==
    (/\ Retrying /\ remedy.tag = "existing"
     /\ Cardinality(Replacements) >= 2
     /\ \E i \in Replacements :
            remedy.listing[i].AvailabilityZone \notin WorkingZones) =>
        \E i \in Replacements :
            /\ remedy.listing[i].SubnetId = remedy.existing_subnet_id
            /\ NextAttempt = Append(remedy.working, remedy.existing_subnet_id)
            /\ remedy.listing[i].AvailabilityZone \notin WorkingZones

\* the constant of the retry cap, taken as large as the number of insufficient-space
\* answers the provider gives in one run allows
RetryAllowance == MaxInsufficient - 1

\* C15: whatever the provider answers, one top-level call of
\* create_network_load_balancer makes at most as many creation attempts as the number
\* of subnets it was given plus a small constant
C15_AttemptsCapped ==
    attempts # <<>> => Len(attempts) <= Len(attempts[1]) + RetryAllowance

\* the provider calls that create or configure the autoscaling group
AsgCalls ==
    {"create_auto_scaling_group", "update_auto_scaling_group", "put_scaling_policy",
     "delete_policy"}

\* C18: when the launch template cannot be found, no create-autoscaling-group call and
\* no warmup, cooldown or scaling-policy call is issued, and once the template has
\* been looked up deploy has returned False
C18_NoTemplateNoAsg ==
    ~launch_template =>
        /\ \A i \in 1..Len(calls) : calls[i] \notin AsgCalls
        /\ {"warmup", "cooldown", "policy"} \cap (succeeded \cup failed) = {}
        /\ (\E i \in 1..Len(calls) : calls[i] = "describe_launch_template_versions") =>
              /\ pc = "done" /\ result = "False"
              /\ "asg" \in failed

\* a run that reached the autoscaling group step, where the launch template was
\* looked up and not found
C18_Witness ==
    /\ ~launch_template
    /\ {"nlb", "wait", "tg", "listener"} \subseteq succeeded
    /\ calls[Len(calls)] = "describe_launch_template_versions"
    /\ pc = "done" /\ result = "False"

\* how many times a call is in the log
Count(call) == Cardinality({i \in 1..Len(calls) : calls[i] = call})

\* the last entry of the log that is a scaling-policy call
LastPolicyCall ==
    LET at == {i \in 1..Len(calls) : calls[i] \in {"put_scaling_policy", "delete_policy"}}
    IN  IF at = {} THEN "none" ELSE calls[Greatest(at)]

\* C19: when put_scaling_policy signals that the policy exists, delete_policy is
\* issued before the next put_scaling_policy; when the put that follows the delete
\* creates the policy its ARN is returned; when the delete fails None is returned
\* and no further put is issued
C19_DeleteThenRecreate ==
    /\ policy_puts >= 1 => Count("delete_policy") >= policy_puts - 1
    /\ (pc = "policy" /\ policy_puts >= 1) =>
          /\ signal = "AlreadyExists" /\ LastPolicyCall = "delete_policy"
          /\ "policy" \notin succeeded \cup failed
    /\ (policy_puts >= 2 /\ signal = "created") =>
          /\ "policy" \in succeeded /\ LastPolicyCall = "put_scaling_policy"
          /\ Count("delete_policy") = policy_puts - 1
    /\ signal = "AlreadyExists, delete refused" =>
          /\ "policy" \in failed /\ pc \in {"dns", "done"}
          /\ LastPolicyCall = "delete_policy"
          /\ Count("delete_policy") = policy_puts

\* a run in which the policy existed, was deleted and was created by the second put
C19_Witness ==
    /\ policy_puts = 2 /\ signal = "created" /\ "policy" \in succeeded
    /\ Count("put_scaling_policy") = 2 /\ Count("delete_policy") = 1

\* a run in which the policy existed and its delete was refused
C19_WitnessRefused ==
    /\ policy_puts = 1 /\ signal = "AlreadyExists, delete refused"
    /\ "policy" \in failed /\ result = "True"

\* one poll of wait_for_nlb_active: it is made before the deadline; the wait goes on
\* only with the clock advanced and the deadline still ahead; it returns True only
\* on the answer 'active'; it returns False on a provider error and when the answer
\* is another state and the deadline has passed, and deploy is then done with False
Poll ==
    pc = "wait" =>
        /\ elapsed < WaitTimeout
        /\ pc' = "wait" => elapsed < elapsed' /\ elapsed' < WaitTimeout
        /\ "wait" \in succeeded' => signal' = "active" /\ pc' = "tg"
        /\ signal' = "active" => "wait" \in succeeded'
        /\ signal' = "error" => "wait" \in failed'
        /\ pc' # "wait" => "wait" \in succeeded' \cup failed'
        /\ "wait" \in failed' =>
              /\ pc' = "done" /\ result' = "False"
              /\ calls'[Len(calls')] = "describe_load_balancers(State)"

\* C21: wait_for_nlb_active terminates (every poll that does not end it advances the
\* clock towards the deadline); it returns True only if a poll made before the
\* deadline observed 'active', False on a provider error or once the deadline has
\* passed; after it returned False deploy has returned False and no provider call
\* follows the last poll
C21_WaitEnds ==
    [][/\ Poll
       /\ "wait" \in failed =>
             UNCHANGED <<provider, calls, pc, result, succeeded, failed>>]_vars

\* the wait timed out: the last poll was answered with a state other than 'active'
\* and deploy returned False
C21_Witness ==
    /\ "wait" \in failed /\ signal = "provisioning"
    /\ pc = "done" /\ result = "False"
    /\ calls[Len(calls)] = "describe_load_balancers(State)"

\* the subnets that were named as offending or were part of a failed attempt in the
\* cycles of the run so far
TriedOrOffending ==
    UNION {Elems(attempts[i]) : i \in 1..Len(offenders)} \cup Elems(offenders)

\* C22: the subnet the existing-subnet search selects in a cycle was neither named as
\* offending nor part of an attempted subnet set in any cycle of the run before it
C22_NeverReselected ==
    (remedy # None /\ remedy.tag = "existing") =>
        remedy.existing_subnet_id \notin TriedOrOffending

\* C24: whenever create_network_load_balancer has returned an ARN, final_subnets is
\* the subnet set of the load balancer the ARN denotes, also when the ARN was fetched
\* by name for a load balancer that existed before
C24_FinalSubnetsAreTheLbSubnets ==
    (mode = "deploy" /\ IsArn(nlb_arn)) =>
        /\ lb # None /\ nlb_arn = lb.arn
        /\ Elems(final_subnets) = Elems(lb.subnets)

\* C25: whatever provider error occurs while the load balancer is reconciled, the
\* fetch by name after a duplicate-name signal included, create_network_load_balancer
\* ends by returning (an ARN or None, never an uncaught error), and when it returned
\* None deploy returns False
C25_LbErrorsEndInNone ==
    mode = "deploy" =>
        /\ nlb_arn # "raised"
        /\ "nlb" \in failed => nlb_arn = "None" /\ result = "False" /\ pc = "done"

\* a list without a repeated element
DuplicateFree(list) == \A i, j \in 1..Len(list) : i # j => list[i] # list[j]

\* the attempts of the run, the one about to be issued included
AttemptsAndNext ==
    IF pc = "nlb" /\ nlb_arn = "pending" THEN Append(attempts, cur_subnets) ELSE attempts

\* C26: when the caller's subnet list is non-empty and duplicate-free, every
\* load-balancer creation attempt is made with a non-empty, duplicate-free subnet
\* list, and the attempt after a remediation does not contain the subnet that the
\* error before it named
C26_AttemptsWellFormed ==
    (mode = "deploy" /\ caller_subnets # <<>> /\ DuplicateFree(caller_subnets)) =>
        \A i \in 1..Len(AttemptsAndNext) :
            /\ AttemptsAndNext[i] # <<>>
            /\ DuplicateFree(AttemptsAndNext[i])
            /\ (i >= 2 /\ i - 1 <= Len(offenders)) =>
                  offenders[i - 1] \notin Elems(AttemptsAndNext[i])

\* two remediations on a two-subnet list, each error naming one subnet of its attempt
C26_Witness ==
    /\ mode = "deploy" /\ Len(caller_subnets) = 2 /\ DuplicateFree(caller_subnets)
    /\ Len(offenders) = 2 /\ Len(AttemptsAndNext) = 3
    /\ \A i \in 1..2 : offenders[i] \in Elems(AttemptsAndNext[i])
    /\ Len(AttemptsAndNext[3]) = 2

\* the recursive calls of create_target_tracking_policy made so far: every put after
\* the first is made by a call entered at line 546
Reentries == IF policy_puts = 0 THEN 0 ELSE policy_puts - 1

\* the bound on the recursion, taken as large as the number of "already exists"
\* answers the provider gives in one run allows
RecreateAllowance == MaxPolicyExists - 1

\* C30: whatever the provider answers, the delete-and-recreate recursion of
\* create_target_tracking_policy is entered a bounded number of times, also when
\* every put is answered "already exists" and every delete succeeds
C30_RecreateBounded == Reentries <= RecreateAllowance

----------------------------------------------------------------------------
(* Properties of the idempotent creators, checked under SpecEnsure.        *)

\* what the calls of one creator returned: a call the provider answered with the
\* duplicate-name signal did not return None, and when the first call returned an ARN
\* and the second was answered with the duplicate-name signal and fetched the
\* resource, the second returned the same ARN, the ARN of the existing resource
SameArn(returned, duplicate, existing_arn) ==
    /\ \A k \in 1..Len(returned) :
          returned[k].signal = duplicate => returned[k].arn # "None"
    /\ (/\ Len(returned) = 2
        /\ IsArn(returned[1].arn)
        /\ returned[2].signal = duplicate
        /\ returned[2].arn # "raised") =>
          /\ returned[2].arn = returned[1].arn
          /\ returned[2].arn = existing_arn

OnPort(listing, port) == {i \in 1..Len(listing) : listing[i] = port}

\* C20: after any sequence of sequential create_listener calls the load balancer has
\* at most one listener on each port: a call issues create_listener only when
\* describe_listeners listed no listener with the port, and otherwise returns the
\* listed listener's ARN
C20_OneListenerPerPort ==
    (mode = "ensure" /\ pc = "listener") =>
        /\ \A port \in ListenerPorts : Cardinality(OnPort(listeners, port)) <= 1
        /\ \A k \in 1..Len(view.listener) :
              LET call == view.listener[k]
              IN  /\ call.create_called => OnPort(call.listed, call.port) = {}
                  /\ OnPort(call.listed, call.port) # {} =>
                        /\ call.arn \in OnPort(call.listed, call.port)
                        /\ call.listeners = call.listed

\* three calls for one port on a load balancer without listeners: the first created
\* the listener, the second and the third returned it
C20_Witness ==
    /\ mode = "ensure" /\ pc = "listener"
    /\ Len(view.listener) = 3
    /\ \A k \in 1..3 : view.listener[k].port = ListenerPort
    /\ view.listener[1].listed = <<>> /\ view.listener[1].create_called
    /\ \A k \in 2..3 :
          /\ ~view.listener[k].create_called
          /\ view.listener[k].arn = view.listener[1].arn
    /\ listeners = <<ListenerPort>>

\* one create_load_balancer call of a create_network_load_balancer call in progress
LbCall == mode = "ensure" /\ pc = "nlb" /\ nlb_arn = "pending" /\ attempts' # attempts

\* C23: a remediation cycle is entered only for an InvalidSubnet error whose message
\* indicates insufficient address space and only when a VPC id was supplied; on every
\* other error that is not the duplicate name create_network_load_balancer returns
\* None without searching the existing subnets, creating a subnet or retrying
C23_RemediationOnlyWhenRemediable ==
    [][LbCall =>
         /\ offenders' # offenders => signal' = InsufficientSignal /\ vpc_id # ""
         /\ (\/ signal' \in {"InvalidSubnet", "Other"}
             \/ signal' = InsufficientSignal /\ vpc_id = "") =>
               /\ nlb_arn' = "None"
               /\ calls' = Log(calls, "create_load_balancer")
               /\ UNCHANGED <<subnets, cur_subnets, offenders, remedy, lb,
                              final_subnets>>]_vars

\* a call without a VPC id was answered with the insufficient-space error and
\* returned None after its only attempt
C23_Witness ==
    /\ mode = "ensure" /\ pc = "nlb" /\ vpc_id = ""
    /\ signal = InsufficientSignal
    /\ nlb_arn = "None" /\ offenders = <<>> /\ remedy = None
    /\ attempts = <<caller_subnets>>
    /\ calls = <<"create_load_balancer">>

----------------------------------------------------------------------------
(* Properties of the stress service, checked under SpecApp.                *)

\* the i-th process started is registered in running_stresses
Registered(i) ==
    /\ processes[i].pid \in DOMAIN running_stresses
    /\ running_stresses[processes[i].pid] = i

\* no cleanup_process task scheduled for the process id of the i-th process is still
\* to run: the task start_stress scheduled for it (the i-th) and those of earlier
\* processes with the same id
CleanupOver(i) ==
    \A t \in 1..Len(background_tasks) :
        background_tasks[t].process_id = processes[i].pid =>
            background_tasks[t].state = "done"

\* C31: a process registered by start_stress is removed from running_stresses after
\* it has finished by its cleanup_process task alone: once the process has ended and
\* its cleanup task has run, it is registered no longer
C31_CleanupRemovesFinished ==
    \A i \in 1..Len(processes) :
        (ended(processes[i]) /\ CleanupOver(i)) => ~Registered(i)

\* C32: in every interleaving of the handlers and the cleanup tasks no del statement
\* is executed for a process id that is absent from running_stresses, and every
\* entry deleted is one whose process was stopped or has finished
C32_RemovalsAreSound ==
    \A d \in removed :
        /\ d.present
        /\ d.state \in {"finished", "stopped"}

\* a cleanup task finds its process id registered again for a later process that has
\* finished and deletes that entry, after a stop request removed its own process
C32_Witness ==
    \E d \in removed :
        /\ d.by = "cleanup" /\ d.present /\ d.state = "finished"
        /\ Len(processes) >= 2
        /\ processes[1].pid = d.pid /\ processes[1].state = "stopped"
        /\ processes[2].pid = d.pid /\ processes[2].state = "finished"
        /\ background_tasks[1].state = "done" /\ background_tasks[2].state = "sleeping"

====
